---------------------------- MODULE Spec2Model ----------------------------
(***************************************************************************)
(* Model of PERF/core.py: one invocation of main().                        *)
(*                                                                         *)
(* The command line and the units file are the inputs; they are chosen in  *)
(* Init and never change.  The actions follow main() top to bottom:        *)
(* getArgs (parse_args, the -rep check, the output file), the motif        *)
(* catalogue, the cutoff dispatch, ssr_native (cutoff table, scanner       *)
(* dispatch, return), annotate and analyse.  Calls into other modules      *)
(* (generate_repeats, build_rep_set, fasta_ssrs, fastq_ssrs, annotate,     *)
(* analyse) are recorded in the call log with their arguments.             *)
(*                                                                         *)
(* Python values: None is <<>> and a present value v is <<v>>; a string is *)
(* a sequence of one-character strings; a dict is a function.              *)
(***************************************************************************)
EXTENDS Integers, Sequences, FiniteSets, TLC

VARIABLES
    argv,          \* the command line: options given by the user
    unitsFile,     \* the file the -u argument names: <<>> (missing) or <<lines>>
    pc,            \* position of the process in main()/getArgs()/ssr_native()
    args,          \* the argparse namespace
    outFile,       \* what this run has done to the output file
    calls,         \* names of the external calls made so far, in order
    genArgs,       \* arguments of the generate_repeats call, <<>> before it
    ssrArgs,       \* keyword arguments of the ssr_native call, <<>> before it
    buildArgs,     \* keyword arguments of the build_rep_set call, <<>> before it
    repeats_info,  \* ssr_native's local: <<>> while unbound, else <<table>>
    scanArgs,      \* cutoff table handed to fasta_ssrs/fastq_ssrs, <<>> before
    stderr,        \* diagnostics printed so far
    outcome        \* "running", "ok", or how the process died

vars == <<argv, unitsFile, pc, args, outFile, calls, genArgs, ssrArgs,
          buildArgs, repeats_info, scanArgs, stderr, outcome>>

-----------------------------------------------------------------------------
(* Python values *)

None == <<>>
Some(v) == <<v>>
IsNone(o) == o = <<>>
Val(o) == o[1]

\* bool(x) for an optional int, an optional str, a dict
TruthyInt(o) == ~IsNone(o) /\ Val(o) # 0
TruthyStr(o) == ~IsNone(o) /\ Len(Val(o)) # 0
TruthyMinUnits(o) == ~IsNone(o) /\ TruthyStr(Some(Val(o).s))
TruthyDict(d) == DOMAIN d # {}

EmptyDict == <<>>
DictSet(d, k, v) == [x \in (DOMAIN d) \cup {k} |-> IF x = k THEN v ELSE d[x]]

-----------------------------------------------------------------------------
(* int(str) and str.strip().split() *)

Digits == {"0", "1", "2", "3", "4", "5", "6", "7", "8", "9"}
DigitVal == ("0" :> 0) @@ ("1" :> 1) @@ ("2" :> 2) @@ ("3" :> 3) @@ ("4" :> 4)
            @@ ("5" :> 5) @@ ("6" :> 6) @@ ("7" :> 7) @@ ("8" :> 8) @@ ("9" :> 9)
Whitespace == {" ", "\t", "\n"}

RECURSIVE LStrip(_)
LStrip(s) == IF s # <<>> /\ Head(s) \in Whitespace THEN LStrip(Tail(s)) ELSE s

RECURSIVE RStrip(_)
RStrip(s) == IF s # <<>> /\ s[Len(s)] \in Whitespace
             THEN RStrip(SubSeq(s, 1, Len(s) - 1)) ELSE s

Strip(s) == RStrip(LStrip(s))

\* digits, with single underscores allowed between digits
IsDigitString(s) ==
    /\ Len(s) > 0
    /\ s[1] \in Digits
    /\ s[Len(s)] \in Digits
    /\ \A i \in 1..Len(s) : s[i] \in Digits \cup {"_"}
    /\ \A i \in 1..(Len(s) - 1) : ~(s[i] = "_" /\ s[i + 1] = "_")

RECURSIVE DigitsValue(_, _)
DigitsValue(s, acc) ==
    IF s = <<>> THEN acc
    ELSE IF Head(s) = "_" THEN DigitsValue(Tail(s), acc)
    ELSE DigitsValue(Tail(s), 10 * acc + DigitVal[Head(s)])

\* int(s): [ok |-> TRUE, v |-> n], or ok = FALSE for ValueError
ParseInt(s) ==
    LET t == Strip(s)
        signed == t # <<>> /\ Head(t) \in {"+", "-"}
        body == IF signed THEN Tail(t) ELSE t
    IN  IF IsDigitString(body)
        THEN [ok |-> TRUE,
              v |-> IF signed /\ Head(t) = "-" THEN 0 - DigitsValue(body, 0)
                    ELSE DigitsValue(body, 0)]
        ELSE [ok |-> FALSE, v |-> 0]

\* s.split(): the maximal runs of non-whitespace characters
RECURSIVE SplitFrom(_, _, _)
SplitFrom(s, cur, acc) ==
    IF s = <<>> THEN (IF cur = <<>> THEN acc ELSE Append(acc, cur))
    ELSE IF Head(s) \in Whitespace
         THEN SplitFrom(Tail(s), <<>>, IF cur = <<>> THEN acc ELSE Append(acc, cur))
         ELSE SplitFrom(Tail(s), Append(cur, Head(s)), acc)

Split(s) == SplitFrom(s, <<>>, <<>>)

-----------------------------------------------------------------------------
(* Inputs: the command line and the units file *)

MaxLines == 2

DefaultMinMotifSize == 1
DefaultMaxMotifSize == 6
DefaultMinLength == 12

\* -m, -M, -l are converted by argparse (type=int); the values tried
MotifSizeArgs == {None, Some(0), Some(2)}
MaxMotifSizeArgs == {None, Some(0), Some(1)}
MinLengthArgs == {None, Some(0), Some(5)}

\* -u is kept as the string the user typed
UnitsFileName == <<"u", ".", "t">>
MinUnitsArgs == {None, Some(<<>>), Some(<<"0">>), Some(<<"1">>), Some(<<" ", "3">>),
                 Some(UnitsFileName)}

Formats == {"fasta", "fastq"}

\* lines a units file may hold, as read (with their line terminator)
UnitLines == { <<"1", " ", "1", "\n">>,
               <<"2", "\t", "3", "\n">>,
               <<"x", " ", "1", "\n">>,
               <<"2", " ", "x", "\n">>,
               <<"3", "\n">>,
               <<"\n">>,
               <<"1", " ", "2", " ", "x", "\n">> }

SeqsUpTo(S, n) == UNION {[1..k -> S] : k \in 0..n}

\* the file -u names: missing, or its lines
UnitsFiles == {None} \cup {Some(ls) : ls \in SeqsUpTo(UnitLines, MaxLines)}

ArgvSet == [rep : BOOLEAN, m : MotifSizeArgs, M : MaxMotifSizeArgs,
            l : MinLengthArgs, u : MinUnitsArgs, o : BOOLEAN,
            format : Formats, g : BOOLEAN, a : BOOLEAN]

\* the namespace argparse starts from: every option at its default
DefaultArgs ==
    [repeats |-> None,
     min_motif_size |-> DefaultMinMotifSize,
     max_motif_size |-> DefaultMaxMotifSize,
     min_length |-> None,
     min_units |-> None,
     output |-> "<stdout>",
     format |-> "fasta",
     annotate |-> None,
     analyse |-> FALSE]

\* args.min_units holds the string typed, until main replaces it by int(string)
StrVal(s) == [kind |-> "str", s |-> s, n |-> 0]
IntVal(n) == [kind |-> "int", s |-> <<>>, n |-> n]

Init ==
    /\ argv \in ArgvSet
    /\ unitsFile \in (IF argv.u = Some(UnitsFileName) THEN UnitsFiles ELSE {None})
    /\ pc = "parse_args"
    /\ args = DefaultArgs
    /\ outFile = "untouched"
    /\ calls = <<>>
    /\ genArgs = None
    /\ ssrArgs = None
    /\ buildArgs = None
    /\ repeats_info = None
    /\ scanArgs = None
    /\ stderr = <<>>
    /\ outcome = "running"

-----------------------------------------------------------------------------
(* getArgs *)

\* -l and -u added to the parser outside any mutually exclusive group
CutoffConflict_NoGroup(l, u) == FALSE

\* the mutually exclusive group of -l and -u: an option counts as given when
\* its converted value is not the default None
CutoffConflict(l, u) == ~IsNone(l) /\ ~IsNone(u)

\* the namespace parse_args returns for an accepted command line
ParsedArgs(a) ==
    [repeats |-> IF a.rep THEN Some("user_file") ELSE None,
     min_motif_size |-> IF IsNone(a.m) THEN DefaultMinMotifSize ELSE Val(a.m),
     max_motif_size |-> IF IsNone(a.M) THEN DefaultMaxMotifSize ELSE Val(a.M),
     min_length |-> a.l,
     min_units |-> IF IsNone(a.u) THEN None ELSE Some(StrVal(Val(a.u))),
     output |-> IF a.o THEN "user_file" ELSE "<stdout>",
     format |-> a.format,
     annotate |-> IF a.g THEN Some("gff") ELSE None,
     analyse |-> a.a]

Die(how) ==
    /\ outcome' = how
    /\ pc' = "exited"

\* line 71: parser.parse_args().  -o is opened 'r+' (no truncation) when its
\* value is converted; a conflict of -l and -u is reported when the second of
\* the two is met, which is before or after -o depending on their order.
ParseArgs ==
    /\ pc = "parse_args"
    /\ IF CutoffConflict(argv.l, argv.u)
       THEN /\ Die("usage: not allowed with argument")
            /\ outFile' \in (IF argv.o THEN {"untouched", "opened r+"} ELSE {"untouched"})
            /\ UNCHANGED args
       ELSE /\ args' = ParsedArgs(argv)
            /\ outFile' = IF argv.o THEN "opened r+" ELSE "untouched"
            /\ pc' = "rep_check"
            /\ UNCHANGED outcome
    /\ UNCHANGED <<argv, unitsFile, calls, genArgs, ssrArgs, buildArgs,
                   repeats_info, scanArgs, stderr>>

\* line 73: args.repeats and (args.min_motif_size or args.max_motif_size)
RepeatsWithMotifSize(a) ==
    ~IsNone(a.repeats) /\ (a.min_motif_size # 0 \/ a.max_motif_size # 0)

\* lines 73-74
RepCheck ==
    /\ pc = "rep_check"
    /\ IF RepeatsWithMotifSize(args)
       THEN Die("usage: -rep is not allowed with -m/-M")
       ELSE pc' = "open_output" /\ UNCHANGED outcome
    /\ UNCHANGED <<argv, unitsFile, args, outFile, calls, genArgs, ssrArgs,
                   buildArgs, repeats_info, scanArgs, stderr>>

\* lines 76-79: without -o the output is <input stem>_perf.tsv, opened 'w'
OpenOutput ==
    /\ pc = "open_output"
    /\ IF args.output = "<stdout>"
       THEN /\ outFile' = "created or truncated"
            /\ args' = [args EXCEPT !.output = "_perf.tsv"]
       ELSE UNCHANGED <<outFile, args>>
    /\ pc' = "main_repeats"
    /\ UNCHANGED <<argv, unitsFile, calls, genArgs, ssrArgs, buildArgs,
                   repeats_info, scanArgs, stderr, outcome>>

-----------------------------------------------------------------------------
(* main: the motif catalogue *)

Call(name) == calls' = Append(calls, name)

\* lines 110-113: no -rep file, so the catalogue is generated from the range
MainRepeats ==
    /\ pc = "main_repeats"
    /\ IF IsNone(args.repeats)
       THEN /\ Call("generate_repeats")
            /\ genArgs' = Some([min_motif_size |-> args.min_motif_size,
                                max_motif_size |-> args.max_motif_size])
            /\ args' = [args EXCEPT !.repeats = Some("generated")]
       ELSE UNCHANGED <<calls, genArgs, args>>
    /\ pc' = "main_cutoff"
    /\ UNCHANGED <<argv, unitsFile, outFile, ssrArgs, buildArgs, repeats_info,
                   scanArgs, stderr, outcome>>

-----------------------------------------------------------------------------
(* main: the cutoff dispatch, lines 115-145 *)

Msg(text, value) == [msg |-> text, arg |-> <<value>>]

Unit1Warning(size) == Msg("Warning: Repeat unit of 1 used for size %d.", size)

\* lines 128-137: the lines of the units file, in order.  L[0] and L[1] are
\* read and converted in turn; fields after the second are never looked at.
RECURSIVE ReadUnits(_, _, _)
ReadUnits(lines, table, warned) ==
    IF lines = <<>>
    THEN [status |-> "ok", table |-> table, warned |-> warned]
    ELSE LET L == Split(Strip(Head(lines)))
             size == ParseInt(L[1])
             count == ParseInt(L[2])
         IN  IF Len(L) < 1
             THEN [status |-> "IndexError", table |-> table, warned |-> warned]
             ELSE IF ~size.ok
             THEN [status |-> "exit: Invalid file format given for minimum units",
                   table |-> table, warned |-> warned]
             ELSE IF Len(L) < 2
             THEN [status |-> "IndexError", table |-> table, warned |-> warned]
             ELSE IF ~count.ok
             THEN [status |-> "exit: Invalid file format given for minimum units",
                   table |-> table, warned |-> warned]
             ELSE ReadUnits(Tail(lines),
                            DictSet(table, size.v, count.v),
                            IF count.v = 1
                            THEN Append(warned, Unit1Warning(size.v))
                            ELSE warned)

\* lines 121-139 with both fatal exits passed over: a missing file and a line
\* that does not convert are skipped
RECURSIVE ReadUnits_Skip(_, _, _)
ReadUnits_Skip(lines, table, warned) ==
    IF lines = <<>>
    THEN [status |-> "ok", table |-> table, warned |-> warned]
    ELSE LET r == ReadUnits(<<Head(lines)>>, table, warned)
         IN  IF r.status = "ok"
             THEN ReadUnits_Skip(Tail(lines), r.table, r.warned)
             ELSE ReadUnits_Skip(Tail(lines), table, warned)

ResolveUnits_NoExit(s, file) ==
    LET n == ParseInt(s)
    IN  IF n.ok
        THEN [status |-> "ok", table |-> DictSet(EmptyDict, 0, n.v), warned |-> <<>>]
        ELSE IF IsNone(file)
        THEN [status |-> "ok", table |-> EmptyDict, warned |-> <<>>]
        ELSE ReadUnits_Skip(Val(file), EmptyDict, <<>>)

\* lines 121-139: unit_cutoff from the -u string s and the file it may name
ResolveUnits(s, file) ==
    LET n == ParseInt(s)
    IN  IF n.ok
        THEN [status |-> "ok", table |-> DictSet(EmptyDict, 0, n.v), warned |-> <<>>]
        ELSE IF IsNone(file)
        THEN [status |-> "exit: Units file specified is not found",
              table |-> EmptyDict, warned |-> <<>>]
        ELSE ReadUnits(Val(file), EmptyDict, <<>>)

\* ssr_native(args, length_cutoff=..., unit_cutoff=...); a keyword left out
\* keeps its default False, written None here
EnterSsrNative(length_cutoff, unit_cutoff) ==
    /\ Call("ssr_native")
    /\ ssrArgs' = Some([length_cutoff |-> length_cutoff, unit_cutoff |-> unit_cutoff])
    /\ pc' = "ssr_build"

\* lines 116-117
MainLength ==
    /\ pc = "main_cutoff"
    /\ TruthyInt(args.min_length)
    /\ EnterSsrNative(args.min_length, None)
    /\ UNCHANGED <<argv, unitsFile, args, outFile, genArgs, buildArgs,
                   repeats_info, scanArgs, stderr, outcome>>

\* lines 120-140
MainUnits ==
    /\ pc = "main_cutoff"
    /\ ~TruthyInt(args.min_length)
    /\ TruthyMinUnits(args.min_units)
    /\ LET s == Val(args.min_units).s
           r == ResolveUnits(s, unitsFile)
       IN  /\ stderr' = stderr \o r.warned
           /\ args' = IF ParseInt(s).ok
                      THEN [args EXCEPT !.min_units = Some(IntVal(ParseInt(s).v))]
                      ELSE args
           /\ IF r.status = "ok"
              THEN EnterSsrNative(None, Some(r.table)) /\ UNCHANGED outcome
              ELSE Die(r.status) /\ UNCHANGED <<calls, ssrArgs>>
    /\ UNCHANGED <<argv, unitsFile, outFile, genArgs, buildArgs, repeats_info,
                   scanArgs>>

\* lines 143-145 with a default of 10 in place of 12
MainDefault_Ten ==
    /\ pc = "main_cutoff"
    /\ IsNone(args.min_length)
    /\ IsNone(args.min_units)
    /\ args' = [args EXCEPT !.min_length = Some(10)]
    /\ EnterSsrNative(Some(10), None)
    /\ UNCHANGED <<argv, unitsFile, outFile, genArgs, buildArgs, repeats_info,
                   scanArgs, stderr, outcome>>

\* lines 143-145
MainDefault ==
    /\ pc = "main_cutoff"
    /\ IsNone(args.min_length)
    /\ IsNone(args.min_units)
    /\ args' = [args EXCEPT !.min_length = Some(DefaultMinLength)]
    /\ EnterSsrNative(Some(DefaultMinLength), None)
    /\ UNCHANGED <<argv, unitsFile, outFile, genArgs, buildArgs, repeats_info,
                   scanArgs, stderr, outcome>>

\* none of the three branches is taken: -l 0, or -u with an empty string
MainNoCutoff ==
    /\ pc = "main_cutoff"
    /\ ~TruthyInt(args.min_length)
    /\ ~TruthyMinUnits(args.min_units)
    /\ ~(IsNone(args.min_length) /\ IsNone(args.min_units))
    /\ pc' = "main_annotate"
    /\ UNCHANGED <<argv, unitsFile, args, outFile, calls, genArgs, ssrArgs,
                   buildArgs, repeats_info, scanArgs, stderr, outcome>>

-----------------------------------------------------------------------------
(* ssr_native *)

\* bool() of a keyword argument of ssr_native
TruthyLengthCutoff(k) == TruthyInt(k.length_cutoff)
TruthyUnitCutoff(k) == ~IsNone(k.unit_cutoff) /\ TruthyDict(Val(k.unit_cutoff))

\* lines 87-94: the cutoff table.  build_rep_set is external; its result is
\* recorded as the keyword arguments it was built from.
SsrBuild ==
    /\ pc = "ssr_build"
    /\ LET k == Val(ssrArgs)
       IN  IF TruthyLengthCutoff(k)
           THEN LET kw == [length_cutoff |-> args.min_length, unit_cutoff |-> None]
                IN  /\ Call("build_rep_set")
                    /\ buildArgs' = Some(kw)
                    /\ repeats_info' = Some(kw)
                    /\ stderr' = Append(stderr, Msg("Using length cutoff of %d",
                                                    Val(args.min_length)))
           ELSE IF TruthyUnitCutoff(k)
           THEN LET kw == [length_cutoff |-> None, unit_cutoff |-> k.unit_cutoff]
                IN  /\ Call("build_rep_set")
                    /\ buildArgs' = Some(kw)
                    /\ repeats_info' = Some(kw)
                    /\ stderr' = Append(stderr, Msg("Using unit cutoff of ",
                                                    Val(k.unit_cutoff)))
           ELSE UNCHANGED <<calls, buildArgs, repeats_info, stderr>>
    /\ pc' = "ssr_dispatch"
    /\ UNCHANGED <<argv, unitsFile, args, outFile, genArgs, ssrArgs, scanArgs,
                   outcome>>

\* names bound when line 99 is evaluated: ssr_native's locals and the module's
\* globals.  input_format is assigned nowhere in core.py.
SsrNativeNames == {"args", "length_cutoff", "unit_cutoff", "repeat_file",
                   "repeats_info", "inf", "getArgs", "ssr_native", "main",
                   "build_rep_set", "fasta_ssrs", "fastq_ssrs"}

\* lines 96-100: the scanner dispatch
SsrDispatch ==
    /\ pc = "ssr_dispatch"
    /\ IF args.format = "fasta"
       THEN IF IsNone(repeats_info)
            THEN Die("UnboundLocalError: repeats_info") /\ UNCHANGED <<calls, scanArgs>>
            ELSE /\ Call("fasta_ssrs")
                 /\ scanArgs' = repeats_info
                 /\ pc' = "ssr_return"
                 /\ UNCHANGED outcome
       ELSE IF "input_format" \notin SsrNativeNames
            THEN Die("NameError: input_format") /\ UNCHANGED <<calls, scanArgs>>
            ELSE IF IsNone(repeats_info)
            THEN Die("UnboundLocalError: repeats_info") /\ UNCHANGED <<calls, scanArgs>>
            ELSE /\ Call("fastq_ssrs")
                 /\ scanArgs' = repeats_info
                 /\ pc' = "ssr_return"
                 /\ UNCHANGED outcome
    /\ UNCHANGED <<argv, unitsFile, args, outFile, genArgs, ssrArgs, buildArgs,
                   repeats_info, stderr>>

\* ssr_native returns to main
SsrReturn ==
    /\ pc = "ssr_return"
    /\ Call("ssr_native returns")
    /\ pc' = "main_annotate"
    /\ UNCHANGED <<argv, unitsFile, args, outFile, genArgs, ssrArgs, buildArgs,
                   repeats_info, scanArgs, stderr, outcome>>

-----------------------------------------------------------------------------
(* main: annotation and report *)

\* lines 147-148
MainAnnotate ==
    /\ pc = "main_annotate"
    /\ IF ~IsNone(args.annotate) THEN Call("annotate") ELSE UNCHANGED calls
    /\ pc' = "main_analyse"
    /\ UNCHANGED <<argv, unitsFile, args, outFile, genArgs, ssrArgs, buildArgs,
                   repeats_info, scanArgs, stderr, outcome>>

\* lines 151-152, and the end of main
MainAnalyse ==
    /\ pc = "main_analyse"
    /\ IF args.analyse THEN Call("analyse") ELSE UNCHANGED calls
    /\ pc' = "exited"
    /\ outcome' = "ok"
    /\ UNCHANGED <<argv, unitsFile, args, outFile, genArgs, ssrArgs, buildArgs,
                   repeats_info, scanArgs, stderr>>

Next ==
    \/ ParseArgs
    \/ RepCheck
    \/ OpenOutput
    \/ MainRepeats
    \/ MainLength
    \/ MainUnits
    \/ MainDefault
    \/ MainNoCutoff
    \/ SsrBuild
    \/ SsrDispatch
    \/ SsrReturn
    \/ MainAnnotate
    \/ MainAnalyse

Spec == Init /\ [][Next]_vars

-----------------------------------------------------------------------------
(* Properties *)

Count(name) == Cardinality({i \in DOMAIN calls : calls[i] = name})
Called(name) == \E i \in DOMAIN calls : calls[i] = name

RepError == "usage: -rep is not allowed with -m/-M"
ConflictError == "usage: not allowed with argument"
UnitsFormatError == "exit: Invalid file format given for minimum units"
UnitsMissingError == "exit: Units file specified is not found"
ConfigErrors == {RepError, ConflictError, UnitsFormatError, UnitsMissingError}

\* main has gone past the cutoff dispatch of lines 115-145 without the
\* configuration having been found wrong
BeforeCutoff == {"parse_args", "rep_check", "open_output", "main_repeats",
                 "main_cutoff"}
PastCutoff == pc \notin BeforeCutoff /\ outcome \notin ConfigErrors \cup {"IndexError"}

\* ssr_native has gone past its scanner dispatch of lines 96-100
PastDispatch == Called("ssr_native") /\ pc \notin {"ssr_build", "ssr_dispatch"}

\* C1: with -rep given and neither -m nor -M given, getArgs accepts the command
\* line and generate_repeats is never called; the "-rep is not allowed with
\* -m/-M" error is raised only when the user gave -m or -M.
C1_RepeatsAloneAccepted ==
    (argv.rep /\ IsNone(argv.m) /\ IsNone(argv.M))
        => (outcome # RepError /\ ~Called("generate_repeats"))

\* C2: generate_repeats is never called with min_motif_size < 1 or
\* max_motif_size < min_motif_size.
C2_InvalidRangeRejected ==
    Called("generate_repeats")
        => /\ Val(genArgs).min_motif_size >= 1
           /\ Val(genArgs).max_motif_size >= Val(genArgs).min_motif_size

\* C3: with neither -l nor -u, main sets args.min_length to 12 and calls
\* ssr_native in length mode, and ssr_native calls build_rep_set with
\* length_cutoff=12 and no unit cutoff.
C3_DefaultLengthCutoff ==
    (IsNone(argv.l) /\ IsNone(argv.u))
        => /\ PastCutoff => Count("ssr_native") = 1
           /\ Called("ssr_native")
                => /\ args.min_length = Some(12)
                   /\ ssrArgs = Some([length_cutoff |-> Some(12), unit_cutoff |-> None])
           /\ (Called("ssr_native") /\ pc # "ssr_build")
                => /\ Count("build_rep_set") = 1
                   /\ buildArgs = Some([length_cutoff |-> Some(12),
                                        unit_cutoff |-> None])

C3_Witness ==
    /\ IsNone(argv.l) /\ IsNone(argv.u)
    /\ Called("build_rep_set")
    /\ buildArgs = Some([length_cutoff |-> Some(12), unit_cutoff |-> None])
    /\ Called("fasta_ssrs")

\* the -u argument is a non-empty string that int() refuses: it names a file
UnitsArgNamesFile ==
    /\ ~IsNone(argv.u)
    /\ Len(Val(argv.u)) # 0
    /\ ~ParseInt(Val(argv.u)).ok

NonIntegerField(line) ==
    LET L == Split(Strip(line)) IN \E i \in 1..Len(L) : ~ParseInt(L[i]).ok

NonIntegerLeadingField(line) ==
    LET L == Split(Strip(line))
    IN  \E i \in 1..Len(L) : i <= 2 /\ ~ParseInt(L[i]).ok

\* the run died and never entered ssr_native
FatalBeforeScan ==
    /\ ~Called("ssr_native")
    /\ pc \notin {"ssr_build", "ssr_dispatch", "ssr_return", "main_annotate",
                  "main_analyse"}
    /\ outcome # "ok"

\* C4 as stated: if -u names a units file that is missing, or one of whose
\* lines contains a non-integer field, the run is fatal and ssr_native is
\* never invoked.
C4_AnyNonIntegerFieldFatal ==
    (/\ UnitsArgNamesFile
     /\ \/ IsNone(unitsFile)
        \/ \E i \in DOMAIN Val(unitsFile) : NonIntegerField(Val(unitsFile)[i]))
        => FatalBeforeScan

\* C4 amended: if -u names a units file that is missing, or one of whose lines
\* has a non-integer value in its first or second field, the run is fatal and
\* ssr_native is never invoked.
C4_MalformedUnitsFatal ==
    (/\ UnitsArgNamesFile
     /\ \/ IsNone(unitsFile)
        \/ \E i \in DOMAIN Val(unitsFile) : NonIntegerLeadingField(Val(unitsFile)[i]))
        => FatalBeforeScan

\* a units file whose first line is well formed and whose second is not: the
\* run has died on the second line
C4_Witness ==
    /\ UnitsArgNamesFile
    /\ ~IsNone(unitsFile)
    /\ Len(Val(unitsFile)) = 2
    /\ ~NonIntegerLeadingField(Val(unitsFile)[1])
    /\ NonIntegerLeadingField(Val(unitsFile)[2])
    /\ pc = "exited"
    /\ outcome = UnitsFormatError

Warned == \E i \in DOMAIN stderr :
              stderr[i].msg = "Warning: Repeat unit of 1 used for size %d."

\* a unit threshold of 1 is configured: -u 1, or a units-file line with count 1
UnitOneConfigured ==
    /\ ~IsNone(argv.u)
    /\ \/ ParseInt(Val(argv.u)).ok /\ ParseInt(Val(argv.u)).v = 1
       \/ /\ UnitsArgNamesFile
          /\ ~IsNone(unitsFile)
          /\ \E i \in DOMAIN Val(unitsFile) :
                LET L == Split(Strip(Val(unitsFile)[i]))
                IN  Len(L) >= 2 /\ ParseInt(L[2]).ok /\ ParseInt(L[2]).v = 1

\* C5: when the scan starts in units mode, a warning has been emitted if and
\* only if a unit threshold of 1 is configured, by a scalar -u 1 or by a
\* units-file line.
C5_WarningIffUnitOne ==
    (Called("ssr_native") /\ ~IsNone(Val(ssrArgs).unit_cutoff))
        => (Warned <=> UnitOneConfigured)

\* C6: when a configuration error is reported, the output file has not been
\* created or truncated.
C6_ConfigErrorLeavesOutput ==
    outcome \in ConfigErrors => outFile # "created or truncated"

\* C7: build_rep_set is called at most once, with exactly one of length_cutoff
\* and unit_cutoff; a command line with both -l and -u is rejected by
\* parse_args and makes no call.
C7_OneCutoffMode ==
    /\ Count("ssr_native") <= 1
    /\ Count("build_rep_set") <= 1
    /\ Called("build_rep_set") <=> ~IsNone(buildArgs)
    /\ ~IsNone(buildArgs)
         => (IsNone(Val(buildArgs).length_cutoff) # IsNone(Val(buildArgs).unit_cutoff))
    /\ (~IsNone(argv.l) /\ ~IsNone(argv.u))
         => /\ calls = <<>>
            /\ pc # "parse_args" => (pc = "exited" /\ outcome = ConflictError)

C7_Witness ==
    /\ pc = "exited"
    /\ outcome = "ok"
    /\ Count("build_rep_set") = 1
    /\ ~IsNone(Val(buildArgs).unit_cutoff)
    /\ IsNone(Val(buildArgs).length_cutoff)

\* C8: once ssr_native is past its dispatch with the cutoff table built, the
\* scanner of the input format has been called exactly once with that table:
\* fasta_ssrs for fasta, fastq_ssrs for fastq.
C8_FormatDispatch ==
    (PastDispatch /\ ~IsNone(repeats_info))
        => /\ args.format = "fasta"
                => (Count("fasta_ssrs") = 1 /\ Count("fastq_ssrs") = 0)
           /\ args.format = "fastq"
                => (Count("fastq_ssrs") = 1 /\ Count("fasta_ssrs") = 0)
           /\ scanArgs = repeats_info

\* C9: every run that passes getArgs and the units-file validation calls
\* ssr_native exactly once, and annotate and analyse are called only after
\* ssr_native has returned.
C9_ScanOnceBeforeReports ==
    /\ PastCutoff => Count("ssr_native") = 1
    /\ \A i \in DOMAIN calls :
          calls[i] \in {"annotate", "analyse"}
              => \E j \in 1..(i - 1) : calls[j] = "ssr_native returns"

\* C10: when ssr_native reaches the scanner dispatch, repeats_info has been
\* assigned by a build_rep_set call.
C10_TableAssignedAtDispatch ==
    pc = "ssr_dispatch" => (~IsNone(repeats_info) /\ Called("build_rep_set"))

=============================================================================
